---- MODULE Spec2Model ----
(***************************************************************************)
(* Model of inactive_bot.py: the activity ledger (bot_data["last_seen"],   *)
(* bot_data["groups"]), the update handlers that touch it, the query       *)
(* commands that read it, and the order in which main() registers the      *)
(* handlers (one handler group: the first handler whose check accepts an   *)
(* update handles it, and updates are processed one at a time).            *)
(***************************************************************************)
EXTENDS Integers, Sequences, FiniteSets, TLC

VARIABLES
    now,                \* the value time.time() returns
    reactions_exposed,  \* hasattr(Update, "message_reaction")
    last_seen,          \* bot_data["last_seen"]: user id -> timestamp
    groups,             \* bot_data["groups"]: set of chat ids
    ev,                 \* the update dispatched by the last step
    handled,            \* the handler that processed ev ("none": no handler)
    admins,             \* cmd_inactive: the users get_administrators returned
    admins_failed,      \* cmd_inactive: get_administrators raised
    admin_ids,          \* cmd_inactive: admin_ids
    candidate_ids,      \* cmd_inactive: candidate_ids
    inactive_lines,     \* cmd_inactive: inactive_lines
    member_failed,      \* cmd_inactive: the uids for which get_member raised
    replies,            \* the messages the handler sent for ev
    pc,                 \* cmd_inactive: the await it is suspended on, or "idle"
    await_cutoff,       \* cmd_inactive: cutoff, while it is suspended
    todo,               \* cmd_inactive: the candidates the loop has yet to visit
    await_ts,           \* cmd_inactive: ts of the candidate being looked up
    at_start            \* last_seen as it was when cmd_inactive was entered

vars == <<now, reactions_exposed, last_seen, groups, ev, handled,
          admins, admins_failed, admin_ids, candidate_ids, inactive_lines,
          member_failed, replies, pc, await_cutoff, todo, await_ts, at_start>>

\* cmd_inactive is not in progress
NotSuspended == <<pc, await_cutoff, todo, await_ts, at_start>>

----------------------------------------------------------------------------
(* Bounds and program constants *)

\* number of clock advances a behaviour may take
MaxTicks == 2

\* seconds per day, the factor of the cutoff
DaySecs == 86400

\* the day count of /inactive without an argument
DefaultDays == 30

\* the reading of the clock when the bot starts (a time.time() of late 2023)
StartTime == 1700000000

\* the clock advances by one day per tick
TickSecs == DaySecs

----------------------------------------------------------------------------
(* The platform: users, chats, profiles *)

Humans == {11, 12}
Bots == {13}
AllUsers == Humans \cup Bots

\* Python's None where a user is expected
None == 0

\* user.is_bot read as false for every account
is_bot_never(u) == FALSE

\* user.is_bot read with the opposite sense
is_bot_inverted(u) == u \notin Bots

\* user.is_bot
is_bot(u) == u \in Bots

\* user.full_name and user.username ("" when the account has none)
full_name(u) == CASE u = 11 -> "Ann" [] u = 13 -> "Helper" [] OTHER -> ""
username(u) == CASE u = 11 -> "ann" [] u = 12 -> "bob" [] OTHER -> ""

chat_type(c) ==
    CASE c = 10 -> "private"
      [] c = 20 -> "group"
      [] c = 30 -> "supergroup"
      [] OTHER  -> "channel"

\* chat.type in (ChatType.GROUP, ChatType.SUPERGROUP)
IsGroupType(c) == chat_type(c) \in {"group", "supergroup"}

----------------------------------------------------------------------------
(* Updates *)

\* every update carries the same fields; the ones its kind does not use
\* hold the fillers None, "" and FALSE.  from: message.from_user,
\* poll_answer.user, chat_member.from_user (the actor) or
\* message_reaction.user; subj: chat_member.new_chat_member.user
Upd(kind, chat, from, subj, cmd, arg, status_update, old_status, new_status) ==
    [kind |-> kind, chat |-> chat, from |-> from, subj |-> subj,
     cmd |-> cmd, arg |-> arg, status_update |-> status_update,
     old_status |-> old_status, new_status |-> new_status]

\* the value of ev after a step that dispatches no update
NoUpdate == Upd("tick", None, None, None, "", "", FALSE, "", "")

\* strings of 10 and of 100 zeros
Zeros10 == "0000000000"
Zeros100 ==
    Zeros10 \o Zeros10 \o Zeros10 \o Zeros10 \o Zeros10 \o
    Zeros10 \o Zeros10 \o Zeros10 \o Zeros10 \o Zeros10

\* the decimal digits of 10^400, a day count a command message has room for
HugeDays == "1" \o Zeros100 \o Zeros100 \o Zeros100 \o Zeros100

\* the first argument of /inactive ("": no argument)
InactiveArgs == {"", "1", "0", "-1", "abc", "20000", HugeDays}

\* the first argument of /lastseen ("": no argument)
LastseenArgs == {"", "12", "0", "@ann", "@zed"}

\* plain messages (update.message): in the private chat from its human; in
\* a group from any account (a bot sender is what the message of an
\* anonymous administrator or of a channel carries)
PlainMessages ==
    { Upd("message", 10, 11, None, "", "", FALSE, "", "") }
    \cup { Upd("message", 20, u, None, "", "", FALSE, "", "") : u \in AllUsers }
    \cup { Upd("message", 30, u, None, "", "", FALSE, "", "") : u \in {12, 13} }

\* command messages: each command in the private chat and in a group
CommandMessages ==
    { Upd("message", c[1], c[2], None, cmd, "", FALSE, "", "") :
        c \in {<<10, 11>>, <<20, 12>>},
        cmd \in {"start", "help", "stats", "export"} }
    \cup { Upd("message", 20, 12, None, "lastseen", arg, FALSE, "", "") :
             arg \in LastseenArgs }
    \cup { Upd("message", c[1], c[2], None, "inactive", arg, FALSE, "", "") :
             c \in {<<10, 11>>, <<20, 12>>}, arg \in InactiveArgs }
    \cup { Upd("message", 30, 13, None, "inactive", "1", FALSE, "", "") }

\* service messages of a group (filters.StatusUpdate.ALL)
StatusMessages ==
    { Upd("message", 20, 11, None, "", "", TRUE, "", "") }

\* update.poll_answer: the voter, or no user for an anonymous vote
PollAnswerUpdates ==
    { Upd("poll_answer", None, u, None, "", "", FALSE, "", "") :
        u \in AllUsers \cup {None} }

\* old and new status of the membership changes delivered: join, promotion,
\* demotion, leave, ban, restriction, transfer of ownership
StatusChanges ==
    { <<"left", "member">>, <<"member", "administrator">>,
      <<"administrator", "member">>, <<"member", "left">>,
      <<"member", "kicked">>, <<"member", "restricted">>,
      <<"administrator", "creator">> }

\* the user who performs a change of s: a human joins and leaves by
\* itself, every other change is made by another human
Actor(s, ch) ==
    IF s \in Humans /\ ch \in {<<"left", "member">>, <<"member", "left">>}
    THEN s
    ELSE IF s = 11 THEN 12 ELSE 11

\* update.chat_member of a group and of a channel the bot administers
ChatMemberUpdates ==
    { Upd("chat_member", 20, Actor(s, ch), s, "", "", FALSE, ch[1], ch[2]) :
        s \in AllUsers, ch \in StatusChanges }
    \cup { Upd("chat_member", 40, 12, 12, "", "", FALSE, ch[1], ch[2]) :
             ch \in {<<"left", "member">>, <<"member", "left">>} }

\* update.message_reaction: the reacting user, or no user for an anonymous
\* reaction
ReactionUpdates ==
    { Upd("message_reaction", 20, u, None, "", "", FALSE, "", "") :
        u \in AllUsers \cup {None} }

\* the updates the library can hand to the handlers: it parses a reaction
\* update only when its Update class has the attribute
Updates(exposed) ==
    PlainMessages \cup CommandMessages \cup StatusMessages
        \cup PollAnswerUpdates \cup ChatMemberUpdates
        \cup (IF exposed THEN ReactionUpdates ELSE {})

----------------------------------------------------------------------------
(* Helpers *)

\* touch_user rebuilding the mapping with the touched user alone
touch_user_fresh(ls, user_id, t) == [u \in {user_id} |-> t]

\* touch_user recording the second before the clock's reading
touch_user_stale(ls, user_id, t) ==
    [u \in (DOMAIN ls) \cup {user_id} |-> IF u = user_id THEN t - 1 ELSE ls[u]]

\* touch_user: last_seen[user_id] = now_ts()
touch_user(ls, user_id, t) ==
    [u \in (DOMAIN ls) \cup {user_id} |-> IF u = user_id THEN t ELSE ls[u]]

\* last_seen.get(uid, 0.0)
get_or_zero(ls, uid) == IF uid \in DOMAIN ls THEN ls[uid] ELSE 0

\* fmt_user
fmt_user(u) ==
    LET name == full_name(u)
        tag == "@" \o username(u)
    IN  IF username(u) # ""
        THEN (IF name # "" THEN name \o " (" \o tag \o ")" ELSE tag)
        ELSE (IF name # "" THEN name ELSE "ID:" \o ToString(u))

\* human_dt: the local date, time and zone name of ts; rendered here as the
\* 23 characters of "ts=<seconds> localtime"
human_dt(ts) == "ts=" \o ToString(ts) \o " localtime"

\* the value that stands for a Python integer beyond the integers of the
\* model; only its sign is read
BeyondInt == 2147483647

\* int() taking the absolute value
int_abs(str) ==
    CASE str = "1" -> 1
      [] str = "0" -> 0
      [] str = "-1" -> 1
      [] str = "20000" -> 20000
      [] str = "12" -> 12
      [] str = HugeDays -> BeyondInt
      [] OTHER -> 0

\* int(args[0]): the strings int() accepts, and the value of each
IntStrings == {"1", "0", "-1", "20000", "12", HugeDays}

int(str) ==
    CASE str = "1" -> 1
      [] str = "0" -> 0
      [] str = "-1" -> 0 - 1
      [] str = "20000" -> 20000
      [] str = "12" -> 12
      [] str = HugeDays -> BeyondInt
      [] OTHER -> 0

\* now_ts() - days * 86400 raises OverflowError when the integer
\* days * 86400 is beyond the largest float (about 1.8 * 10^308): so it
\* does for every day count of more than 304 digits
FloatDigits == 304

cutoff_overflows(arg) == Len(arg) > FloatDigits

\* sorted(): the elements of a set of integers in ascending order
RECURSIVE sorted(_)
sorted(S) ==
    IF S = {} THEN << >>
    ELSE LET m == CHOOSE x \in S : \A y \in S : x <= y
         IN  <<m>> \o sorted(S \ {m})

\* a text message the handler sends, as its lines
Text(lines) == [kind |-> "text", lines |-> lines]

UsageInactive == Text(<<"Usage: /inactive <days>, e.g. /inactive 30">>)
NotGroup == Text(<<"Run this in a group/supergroup.">>)
\* the texts keep the length of the source's: each of its characters outside
\* ASCII is written as one ASCII character (the two emoji as + and #, the
\* sign "greater than or equal" as >, the bullet as *, the dash as -, the
\* typographic apostrophe as ')
NoneInactive(days) ==
    Text(<<"+ No tracked members inactive for > " \o ToString(days) \o " days.">>)

\* the character budget of one message of the report
ChunkBudget == 3500

\* header and continuation marker
header(days) == "# Inactive for > " \o ToString(days) \o " days (tracked users):"
ContMarker == "(cont'd)"

\* one line of the report
line_text(label, seen_str) == "* " \o label \o " - last seen: " \o seen_str

\* the loop flushing only once the accumulated chunk is over the budget
RECURSIVE send_chunks_late_flush(_, _, _, _)
send_chunks_late_flush(lines, chunk, total_len, sent) ==
    IF lines = << >>
    THEN (IF chunk # << >> THEN Append(sent, Text(chunk)) ELSE sent)
    ELSE LET line == Head(lines)
         IN  IF total_len > ChunkBudget
             THEN send_chunks_late_flush(Tail(lines), <<ContMarker, line>>,
                                        Len(ContMarker) + Len(line) + 1,
                                        Append(sent, Text(chunk)))
             ELSE send_chunks_late_flush(Tail(lines), Append(chunk, line),
                                        total_len + Len(line) + 1, sent)

\* the accumulate-and-flush loop over inactive_lines: sent are the chunks
\* sent so far, chunk and total_len the chunk being accumulated
RECURSIVE send_chunks(_, _, _, _)
send_chunks(lines, chunk, total_len, sent) ==
    IF lines = << >>
    THEN (IF chunk # << >> THEN Append(sent, Text(chunk)) ELSE sent)
    ELSE LET line == Head(lines)
         IN  IF total_len + Len(line) + 1 > ChunkBudget
             THEN send_chunks(Tail(lines), <<ContMarker, line>>,
                             Len(ContMarker) + Len(line) + 1,
                             Append(sent, Text(chunk)))
             ELSE send_chunks(Tail(lines), Append(chunk, line),
                             total_len + Len(line) + 1, sent)

\* the administrator lists get_administrators can return
AdminLists == {{}, {12, 13}}

\* the outcomes of get_administrators: it raised, or returned a list
AdminResults ==
    {[failed |-> TRUE, users |-> {}]}
        \cup {[failed |-> FALSE, users |-> a] : a \in AdminLists}

\* the sets of users for which get_member raises
MemberFailures == {{}, {12}, AllUsers}

----------------------------------------------------------------------------

Init ==
    /\ now = StartTime
    /\ reactions_exposed \in BOOLEAN
    /\ last_seen = << >>
    /\ groups = {}
    /\ ev = NoUpdate
    /\ handled = "none"
    /\ admins = {}
    /\ admins_failed = FALSE
    /\ admin_ids = {}
    /\ candidate_ids = {}
    /\ inactive_lines = << >>
    /\ member_failed = {}
    /\ replies = << >>
    /\ pc = "idle"
    /\ await_cutoff = 0
    /\ todo = << >>
    /\ await_ts = 0
    /\ at_start = << >>

----------------------------------------------------------------------------
(* Dispatch: main() registers every handler in the one default group, and   *)
(* the application passes an update to the first handler of the group whose *)
(* check accepts it.                                                        *)

\* the handlers in the order main() adds them
Handlers(exposed) ==
    <<"cmd_start", "cmd_help", "cmd_inactive", "cmd_lastseen", "cmd_stats",
      "cmd_export", "on_message", "on_poll_answer", "on_chat_member">>
        \o (IF exposed THEN <<"on_reaction">> ELSE << >>)

\* the check of each registered handler
check_update(h, upd) ==
    CASE h = "cmd_start"      -> upd.kind = "message" /\ upd.cmd = "start"
      [] h = "cmd_help"       -> upd.kind = "message" /\ upd.cmd = "help"
      [] h = "cmd_inactive"   -> upd.kind = "message" /\ upd.cmd = "inactive"
      [] h = "cmd_lastseen"   -> upd.kind = "message" /\ upd.cmd = "lastseen"
      [] h = "cmd_stats"      -> upd.kind = "message" /\ upd.cmd = "stats"
      [] h = "cmd_export"     -> upd.kind = "message" /\ upd.cmd = "export"
         \* MessageHandler(filters.ChatType.GROUPS & ~filters.StatusUpdate.ALL)
      [] h = "on_message"     -> /\ upd.kind = "message"
                                 /\ IsGroupType(upd.chat)
                                 /\ ~upd.status_update
      [] h = "on_poll_answer" -> upd.kind = "poll_answer"
         \* ChatMemberHandler.CHAT_MEMBER
      [] h = "on_chat_member" -> upd.kind = "chat_member"
         \* MessageHandler(filters.ALL): a message filter accepts only updates
         \* that carry a message
      [] h = "on_reaction"    -> upd.kind = "message"
      [] OTHER -> FALSE

\* the handler that processes upd: the first registered one that accepts it
Handler(upd, exposed) ==
    LET hs == Handlers(exposed)
        ok == { i \in 1..Len(hs) : check_update(hs[i], upd) }
    IN  IF ok = {} THEN "none"
        ELSE hs[CHOOSE i \in ok : \A j \in ok : i <= j]

HandlerNames ==
    {"cmd_start", "cmd_help", "cmd_inactive", "cmd_lastseen", "cmd_stats",
     "cmd_export", "on_message", "on_poll_answer", "on_chat_member",
     "on_reaction", "none"}

\* the updates each handler processes, with and without the reaction handler
Routed ==
    [exposed \in BOOLEAN |->
        [h \in HandlerNames |->
            { upd \in Updates(exposed) : Handler(upd, exposed) = h }]]

\* a handler other than cmd_inactive leaves no query results
NoQuery ==
    /\ admins' = {}
    /\ admins_failed' = FALSE
    /\ admin_ids' = {}
    /\ candidate_ids' = {}
    /\ inactive_lines' = << >>
    /\ member_failed' = {}

Given(upd, h) ==
    /\ upd \in Routed[reactions_exposed][h]
    /\ ev' = upd
    /\ handled' = h
    /\ UNCHANGED <<now, reactions_exposed>>
    /\ UNCHANGED NotSuspended

----------------------------------------------------------------------------
(* Update handlers *)

\* on_message adding the chat to groups only after the sender check
on_message_add_after_check ==
    \E upd \in Routed[reactions_exposed]["on_message"] :
        /\ Given(upd, "on_message")
        /\ IF IsGroupType(upd.chat) /\ upd.from # None /\ ~is_bot(upd.from)
           THEN /\ groups' = groups \cup {upd.chat}
                /\ last_seen' = touch_user(last_seen, upd.from, now)
           ELSE UNCHANGED <<groups, last_seen>>
        /\ NoQuery
        /\ replies' = << >>

on_message ==
    \E upd \in Routed[reactions_exposed]["on_message"] :
        /\ Given(upd, "on_message")
        /\ IF ~IsGroupType(upd.chat)
           THEN UNCHANGED <<groups, last_seen>>
           ELSE /\ groups' = groups \cup {upd.chat}
                /\ IF upd.from # None /\ ~is_bot(upd.from)
                   THEN last_seen' = touch_user(last_seen, upd.from, now)
                   ELSE UNCHANGED last_seen
        /\ NoQuery
        /\ replies' = << >>

on_poll_answer ==
    \E upd \in Routed[reactions_exposed]["on_poll_answer"] :
        /\ Given(upd, "on_poll_answer")
        /\ IF upd.kind = "poll_answer" /\ upd.from # None /\ ~is_bot(upd.from)
           THEN last_seen' = touch_user(last_seen, upd.from, now)
           ELSE UNCHANGED last_seen
        /\ UNCHANGED groups
        /\ NoQuery
        /\ replies' = << >>

\* the new statuses with "left" counted as well
ActiveStatusesWithLeft == {"member", "administrator", "left"}

\* the new statuses on_chat_member counts as an interaction
ActiveStatuses == {"member", "administrator"}

on_chat_member ==
    \E upd \in Routed[reactions_exposed]["on_chat_member"] :
        /\ Given(upd, "on_chat_member")
        /\ IF upd.kind # "chat_member"
           THEN UNCHANGED <<groups, last_seen>>
           ELSE /\ groups' = groups \cup {upd.chat}
                /\ IF /\ upd.subj # None
                      /\ ~is_bot(upd.subj)
                      /\ upd.new_status \in ActiveStatuses
                   THEN last_seen' = touch_user(last_seen, upd.subj, now)
                   ELSE UNCHANGED last_seen
        /\ NoQuery
        /\ replies' = << >>

on_reaction ==
    \E upd \in Routed[reactions_exposed]["on_reaction"] :
        /\ Given(upd, "on_reaction")
        /\ IF /\ upd.kind = "message_reaction"
              /\ upd.from # None
              /\ ~is_bot(upd.from)
           THEN last_seen' = touch_user(last_seen, upd.from, now)
           ELSE UNCHANGED last_seen
        /\ UNCHANGED groups
        /\ NoQuery
        /\ replies' = << >>

\* an update no registered handler accepts is dropped
unhandled ==
    \E upd \in Routed[reactions_exposed]["none"] :
        /\ Given(upd, "none")
        /\ UNCHANGED <<groups, last_seen>>
        /\ NoQuery
        /\ replies' = << >>

----------------------------------------------------------------------------
(* Command handlers *)

\* the test of the loop with <= for <
is_inactive_le(ts, cutoff) == ts <= cutoff

\* the test of the loop of cmd_inactive: ts < cutoff
is_inactive(ts, cutoff) == ts < cutoff

\* admin_ids without the is_bot filter
admin_ids_with_bots(failed, adms) == IF failed THEN {} ELSE adms

\* admin_ids of cmd_inactive: the lookup failed, or returned adms
admin_ids_of(failed, adms) ==
    IF failed THEN {} ELSE { a \in adms : ~is_bot(a) }

\* inactive_lines with a candidate dropped when get_member raises
RECURSIVE build_lines_skip_failed(_, _, _, _)
build_lines_skip_failed(uids, ls, cutoff, failing) ==
    IF uids = << >> THEN << >>
    ELSE LET uid == Head(uids)
             ts == get_or_zero(ls, uid)
             seen_str == IF ts = 0 THEN "never" ELSE human_dt(ts)
             rest == build_lines_skip_failed(Tail(uids), ls, cutoff, failing)
         IN  IF is_inactive(ts, cutoff) /\ uid \notin failing
             THEN <<[uid |-> uid, label |-> fmt_user(uid), seen |-> seen_str]>>
                      \o rest
             ELSE rest

\* inactive_lines of cmd_inactive, one record per line appended
RECURSIVE build_lines(_, _, _, _)
build_lines(uids, ls, cutoff, failing) ==
    IF uids = << >> THEN << >>
    ELSE LET uid == Head(uids)
             ts == get_or_zero(ls, uid)
             label == IF uid \in failing THEN "ID:" \o ToString(uid)
                      ELSE fmt_user(uid)
             seen_str == IF ts = 0 THEN "never" ELSE human_dt(ts)
             rest == build_lines(Tail(uids), ls, cutoff, failing)
         IN  IF is_inactive(ts, cutoff)
             THEN <<[uid |-> uid, label |-> label, seen |-> seen_str]>> \o rest
             ELSE rest

\* groups.add replaced by an assignment of the one chat
add_group_replace(gs, chat_id) == {chat_id}

\* groups.add(chat.id) of cmd_inactive
add_group(gs, chat_id) == gs \cup {chat_id}

\* the replies of cmd_inactive once inactive_lines is built
report(lines, days) ==
    LET texts == [i \in 1..Len(lines) |->
                    line_text(lines[i].label, lines[i].seen)]
    IN  IF lines = << >> THEN <<NoneInactive(days)>>
        ELSE send_chunks(texts, <<header(days)>>, Len(header(days)), << >>)

cmd_inactive ==
    \E upd \in Routed[reactions_exposed]["cmd_inactive"] :
        /\ Given(upd, "cmd_inactive")
        /\ LET bad == upd.arg # "" /\
                        (upd.arg \notin IntStrings \/ int(upd.arg) <= 0)
               days == IF upd.arg = "" THEN DefaultDays ELSE int(upd.arg)
           IN  IF bad
               THEN /\ replies' = <<UsageInactive>>
                    /\ NoQuery
                    /\ UNCHANGED <<groups, last_seen>>
               ELSE IF ~IsGroupType(upd.chat)
               THEN /\ replies' = <<NotGroup>>
                    /\ NoQuery
                    /\ UNCHANGED <<groups, last_seen>>
               ELSE IF cutoff_overflows(upd.arg)
               THEN \* the exception leaves the handler: nothing is sent
                    /\ replies' = << >>
                    /\ NoQuery
                    /\ UNCHANGED <<groups, last_seen>>
               ELSE \E res \in AdminResults, failing \in MemberFailures :
                    LET cutoff == now - days * DaySecs
                        aids == admin_ids_of(res.failed, res.users)
                        cands == (DOMAIN last_seen) \cup aids
                        lines == build_lines(sorted(cands), last_seen,
                                             cutoff, failing)
                    IN  /\ groups' = add_group(groups, upd.chat)
                        /\ admins' = res.users
                        /\ admins_failed' = res.failed
                        /\ admin_ids' = aids
                        /\ candidate_ids' = cands
                        /\ inactive_lines' = lines
                        /\ member_failed' =
                             { lines[i].uid : i \in DOMAIN lines } \cap failing
                        /\ replies' = report(lines, days)
                        /\ UNCHANGED last_seen

cmd_start ==
    \E upd \in Routed[reactions_exposed]["cmd_start"] :
        /\ Given(upd, "cmd_start")
        /\ replies' = <<Text(<<"I'm tracking member activity here.">>)>>
        /\ NoQuery
        /\ UNCHANGED <<groups, last_seen>>

cmd_help ==
    \E upd \in Routed[reactions_exposed]["cmd_help"] :
        /\ Given(upd, "cmd_help")
        /\ replies' = <<Text(<<"Inactive Tracker Bot">>)>>
        /\ NoQuery
        /\ UNCHANGED <<groups, last_seen>>

\* the sizes os.path.getsize reports for the persistence file (0: it raised)
FileSizes == {0, 512}

cmd_stats ==
    \E upd \in Routed[reactions_exposed]["cmd_stats"] :
        /\ Given(upd, "cmd_stats")
        /\ \E size_bytes \in FileSizes :
             replies' = <<Text(<<
                "Tracked users: " \o ToString(Cardinality(DOMAIN last_seen)),
                "Tracked groups: " \o ToString(Cardinality(groups)),
                "Storage size: " \o ToString(size_bytes) \o " bytes">>)>>
        /\ NoQuery
        /\ UNCHANGED <<groups, last_seen>>

\* datetime.fromtimestamp(ts, tz=timezone.utc).isoformat(), rendered as
\* the seconds followed by the UTC offset
isoformat(ts) == ToString(ts) \o "+00:00"

\* the orders of the keys S without the smallest key
OrdersDroppingOne(S) ==
    LET T == S \ { x \in S : \A y \in S : x <= y }
    IN  { o \in [1..Cardinality(T) -> T] :
            \A i, j \in DOMAIN o : i # j => o[i] # o[j] }

\* the orders in which a dict can hold the keys S
Orders(S) ==
    { o \in [1..Cardinality(S) -> S] : \A i, j \in DOMAIN o : i # j => o[i] # o[j] }

cmd_export ==
    \E upd \in Routed[reactions_exposed]["cmd_export"] :
        /\ Given(upd, "cmd_export")
        /\ \E items \in Orders(DOMAIN last_seen) :
             replies' = <<[kind |-> "document",
                           lines |-> <<"user_id,last_interaction_iso">> \o
                              [i \in DOMAIN items |->
                                 ToString(items[i]) \o "," \o
                                 isoformat(last_seen[items[i]])]]>>
        /\ NoQuery
        /\ UNCHANGED <<groups, last_seen>>

\* str.lstrip("@") and str.isdigit() on the arguments of /lastseen
lstrip_at(str) ==
    CASE str = "@ann" -> "ann" [] str = "@zed" -> "zed" [] OTHER -> str

isdigit(str) == str \in {"12", "0"}

cmd_lastseen ==
    \E upd \in Routed[reactions_exposed]["cmd_lastseen"] :
        /\ Given(upd, "cmd_lastseen")
        /\ IF upd.arg = ""
           THEN replies' =
                  <<Text(<<"Usage: /lastseen @username or numeric user ID">>)>>
           ELSE \E failing \in MemberFailures :
                LET target == lstrip_at(upd.arg)
                    found == { uid \in DOMAIN last_seen :
                                 /\ uid \notin failing
                                 /\ username(uid) # ""
                                 /\ username(uid) = target }
                    user_id == IF isdigit(target) THEN int(target)
                               ELSE IF found = {} THEN None
                               ELSE CHOOSE uid \in found : TRUE
                    ts == get_or_zero(last_seen, user_id)
                IN  replies' =
                      IF user_id = None
                      THEN <<Text(<<"Couldn't resolve that user in this chat (or not tracked yet).">>)>>
                      ELSE IF ts = 0
                      THEN <<Text(<<"No activity recorded for that user yet.">>)>>
                      ELSE <<Text(<<"Last seen: " \o human_dt(ts)>>)>>
        /\ NoQuery
        /\ UNCHANGED <<groups, last_seen>>

----------------------------------------------------------------------------
(* The clock *)

Tick ==
    /\ now < StartTime + MaxTicks * TickSecs
    /\ now' = now + TickSecs
    /\ ev' = NoUpdate
    /\ handled' = "none"
    /\ NoQuery
    /\ replies' = << >>
    /\ UNCHANGED <<reactions_exposed, last_seen, groups>>
    /\ UNCHANGED NotSuspended

Next ==
    \/ Tick
    \/ cmd_start
    \/ cmd_help
    \/ cmd_inactive
    \/ cmd_lastseen
    \/ cmd_stats
    \/ cmd_export
    \/ on_message
    \/ on_poll_answer
    \/ on_chat_member
    \/ on_reaction
    \/ unhandled

Spec == Init /\ [][Next]_vars

----------------------------------------------------------------------------
(* cmd_inactive await by await. The coroutine is suspended at               *)
(* get_administrators (line 187) and at each get_member (line 199); the     *)
(* application, built without concurrent_updates and with blocking          *)
(* handlers, takes the next update only when the handler has returned.      *)

\* the builder with concurrent_updates(True)
concurrent_updates_on == TRUE

\* ApplicationBuilder()...build(): concurrent_updates keeps its default
concurrent_updates == FALSE

\* the application may hand an update to a handler
Free == concurrent_updates \/ pc = "idle"

\* upd passes the checks of lines 163-175 and the cutoff can be computed
reaches_lookup(upd) ==
    /\ upd.arg = "" \/ (upd.arg \in IntStrings /\ int(upd.arg) > 0)
    /\ IsGroupType(upd.chat)
    /\ ~cutoff_overflows(upd.arg)

\* the runs of cmd_inactive that return before the first await
inactive_returns ==
    /\ pc = "idle"
    /\ cmd_inactive
    /\ ~reaches_lookup(ev')

\* lines 161-187: up to the await of get_administrators
inactive_begin ==
    /\ pc = "idle"
    /\ \E upd \in Routed[reactions_exposed]["cmd_inactive"] :
          /\ reaches_lookup(upd)
          /\ ev' = upd
          /\ handled' = "cmd_inactive"
          /\ await_cutoff' = now - (IF upd.arg = "" THEN DefaultDays
                                              ELSE int(upd.arg)) * DaySecs
          /\ groups' = add_group(groups, upd.chat)
    /\ NoQuery
    /\ replies' = << >>
    /\ pc' = "get_administrators"
    /\ todo' = << >>
    /\ await_ts' = 0
    /\ at_start' = last_seen
    /\ UNCHANGED <<now, reactions_exposed, last_seen>>

\* lines 187-195: get_administrators returns or raises; candidate_ids
inactive_admins ==
    /\ pc = "get_administrators"
    /\ \E res \in AdminResults :
          LET aids == admin_ids_of(res.failed, res.users)
              cands == (DOMAIN last_seen) \cup aids
          IN  /\ admins' = res.users
              /\ admins_failed' = res.failed
              /\ admin_ids' = aids
              /\ candidate_ids' = cands
              /\ todo' = sorted(cands)
    /\ pc' = "loop"
    /\ UNCHANGED <<now, reactions_exposed, last_seen, groups, ev, handled,
                   inactive_lines, member_failed, replies, await_cutoff,
                   await_ts, at_start>>

\* lines 195-199 and 206-221: the loop reads ts of the next candidate and
\* awaits get_member when it is before the cutoff; after the last candidate
\* the report is sent
inactive_loop ==
    /\ pc = "loop"
    /\ IF todo = << >>
       THEN /\ replies' = report(inactive_lines,
                                 IF ev.arg = "" THEN DefaultDays
                                                ELSE int(ev.arg))
            /\ pc' = "idle"
            /\ await_cutoff' = 0
            /\ await_ts' = 0
            /\ at_start' = << >>
            /\ UNCHANGED todo
       ELSE LET t == get_or_zero(last_seen, Head(todo))
            IN  /\ IF is_inactive(t, await_cutoff)
                   THEN await_ts' = t /\ pc' = "get_member" /\ UNCHANGED todo
                   ELSE todo' = Tail(todo) /\ UNCHANGED <<await_ts, pc>>
                /\ UNCHANGED <<replies, await_cutoff, at_start>>
    /\ UNCHANGED <<now, reactions_exposed, last_seen, groups, ev, handled,
                   admins, admins_failed, admin_ids, candidate_ids,
                   inactive_lines, member_failed>>

\* lines 199-204: get_member returns or raises; the line is appended
inactive_member ==
    /\ pc = "get_member"
    /\ \E raised \in BOOLEAN :
          LET uid == Head(todo)
              label == IF raised THEN "ID:" \o ToString(uid) ELSE fmt_user(uid)
              seen_str == IF await_ts = 0 THEN "never" ELSE human_dt(await_ts)
          IN  /\ inactive_lines' =
                    Append(inactive_lines,
                           [uid |-> uid, label |-> label, seen |-> seen_str])
              /\ member_failed' =
                    IF raised THEN member_failed \cup {uid} ELSE member_failed
    /\ todo' = Tail(todo)
    /\ pc' = "loop"
    /\ await_ts' = 0
    /\ UNCHANGED <<now, reactions_exposed, last_seen, groups, ev, handled,
                   admins, admins_failed, admin_ids, candidate_ids, replies,
                   await_cutoff, at_start>>

\* time passes while cmd_inactive is suspended
elapse ==
    /\ pc \in {"get_administrators", "get_member"}
    /\ now < StartTime + MaxTicks * TickSecs
    /\ now' = now + TickSecs
    /\ UNCHANGED <<reactions_exposed, last_seen, groups, ev, handled, admins,
                   admins_failed, admin_ids, candidate_ids, inactive_lines,
                   member_failed, replies, pc, await_cutoff, todo, await_ts,
                   at_start>>

StepNext ==
    \/ inactive_begin
    \/ inactive_admins
    \/ inactive_loop
    \/ inactive_member
    \/ elapse
    \/ inactive_returns
    \/ pc = "idle" /\ Tick
    \/ Free /\ cmd_start
    \/ Free /\ cmd_help
    \/ Free /\ cmd_lastseen
    \/ Free /\ cmd_stats
    \/ Free /\ cmd_export
    \/ Free /\ on_message
    \/ Free /\ on_poll_answer
    \/ Free /\ on_chat_member
    \/ Free /\ on_reaction
    \/ Free /\ unhandled

StepSpec == Init /\ [][StepNext]_vars

----------------------------------------------------------------------------
(* The rendering of the report (lines 206-221) over long lists of lines:    *)
(* inactive_lines is drawn from lists of up to MaxLines lines whose labels  *)
(* are as long as the platform lets a name be, and the rendering is applied.*)

MaxLines == 36

\* a first or last name of 64 characters and a username of 32, the longest
\* the platform accepts
Name64 == "Xxxxxxxxxxxxxxxxxxxxxxxxxxxxxxxxxxxxxxxxxxxxxxxxxxxxxxxxxxxxxxxx"
Username32 == "xxxxxxxxxxxxxxxxxxxxxxxxxxxxxxxx"

\* the label of candidate uid: of kind 0 the fallback of a failed lookup,
\* of kind 1 a short name with a username, of kind 2 the longest fmt_user
\* returns
PageLabel(kind, uid) ==
    CASE kind = 0 -> "ID:" \o ToString(uid)
      [] kind = 1 -> "Ann" \o ToString(uid) \o " (@ann" \o ToString(uid) \o ")"
      [] OTHER    -> Name64 \o " " \o Name64 \o " (@" \o Username32 \o ")"

\* the lists of n lines: candidate ids ascending, the kinds of label either
\* all first or cycling from first, every third candidate never seen
PageLines(n, first, cycling) ==
    [i \in 1..n |->
        [uid   |-> 100 + i,
         label |-> PageLabel(IF cycling THEN (first + i) % 3 ELSE first, 100 + i),
         seen  |-> IF i % 3 = 0 THEN "never" ELSE human_dt(StartTime - i)]]

PageInit ==
    /\ now = StartTime
    /\ reactions_exposed \in BOOLEAN
    /\ last_seen = << >>
    /\ groups = {20}
    /\ \E a \in {"", "1", "20000"} :
          ev = Upd("message", 20, 12, None, "inactive", a, FALSE, "", "")
    /\ handled = "none"
    /\ admins = {}
    /\ admins_failed = FALSE
    /\ admin_ids = {}
    /\ candidate_ids = {}
    /\ \E n \in 0..MaxLines, first \in 0..2, cycling \in BOOLEAN :
          inactive_lines = PageLines(n, first, cycling)
    /\ member_failed = {}
    /\ replies = << >>
    /\ pc = "idle"
    /\ await_cutoff = 0
    /\ todo = << >>
    /\ await_ts = 0
    /\ at_start = << >>

\* lines 206-221 applied to inactive_lines
render ==
    /\ handled = "none"
    /\ handled' = "cmd_inactive"
    /\ replies' = report(inactive_lines,
                         IF ev.arg = "" THEN DefaultDays ELSE int(ev.arg))
    /\ UNCHANGED <<now, reactions_exposed, last_seen, groups, ev, admins,
                   admins_failed, admin_ids, candidate_ids, inactive_lines,
                   member_failed>>
    /\ UNCHANGED NotSuspended

PageNext == render

PageSpec == PageInit /\ [][PageNext]_vars

----------------------------------------------------------------------------
(* Properties *)

\* the entries of a mapping other than u's are the same in the next state
OthersKept(u) ==
    \A v \in AllUsers \ {u} :
        /\ (v \in DOMAIN last_seen') <=> (v \in DOMAIN last_seen)
        /\ v \in DOMAIN last_seen => last_seen'[v] = last_seen[v]

\* user u is recorded at the current time in the next state
TouchedNow(u) == u \in DOMAIN last_seen' /\ last_seen'[u] = now'

\* the last step ran the query of /inactive (valid day count, group chat)
QueryRan ==
    /\ handled = "cmd_inactive"
    /\ ev.arg \in {"", "1", "20000"}
    /\ chat_type(ev.chat) \in {"group", "supergroup"}

\* the day count and the cutoff of the query the last step ran
QueryDays == CASE ev.arg = "1" -> 1 [] ev.arg = "20000" -> 20000 [] OTHER -> 30
QueryCutoff == now - QueryDays * 86400

\* the user ids reported by the query
ReportedIds == { inactive_lines[i].uid : i \in DOMAIN inactive_lines }

\* C1: under the non-decreasing clock, no step removes an entry of
\* last_seen or lowers it, and an entry that a step creates or changes holds
\* the time of that step.
C1_LastSeenMonotone ==
    [][ /\ \A u \in DOMAIN last_seen :
              /\ u \in DOMAIN last_seen'
              /\ last_seen'[u] >= last_seen[u]
              /\ last_seen'[u] # last_seen[u] => last_seen'[u] = now'
        /\ \A u \in (DOMAIN last_seen') \ (DOMAIN last_seen) :
              last_seen'[u] = now' ]_vars

\* C1 witness: a user was touched by a message after the clock advanced,
\* while another user's earlier entry is still there.
C1_Witness ==
    /\ handled = "on_message"
    /\ ev.from \in DOMAIN last_seen
    /\ last_seen[ev.from] = now
    /\ now > StartTime
    /\ \E v \in DOMAIN last_seen : v # ev.from /\ last_seen[v] < now

\* C2: the report of /inactive holds no user whose recorded last_seen is
\* at or after the cutoff now - days*86400, and lists the users in strictly
\* ascending user-id order (so none twice).
C2_ActiveExcludedSorted ==
    QueryRan =>
        /\ \A u \in DOMAIN last_seen :
              last_seen[u] >= QueryCutoff => u \notin ReportedIds
        /\ \A i, j \in DOMAIN inactive_lines :
              i < j => inactive_lines[i].uid < inactive_lines[j].uid

\* C2 witness: the query ran while a user's record equals the cutoff
\* exactly; that user is left out and another user is reported.
C2_Witness ==
    /\ QueryRan
    /\ \E u \in DOMAIN last_seen :
          last_seen[u] = QueryCutoff /\ u \notin ReportedIds
    /\ inactive_lines # << >>

\* C3 (as claimed): every candidate without a record, and every candidate
\* whose record is earlier than the cutoff, is reported, for any accepted
\* day count; a candidate without a record is shown as "never".
C3_AbsentOrOlderIncluded ==
    QueryRan =>
        \A c \in candidate_ids :
            /\ (c \notin DOMAIN last_seen \/ last_seen[c] < QueryCutoff)
                  => c \in ReportedIds
            /\ c \notin DOMAIN last_seen =>
                  \E i \in DOMAIN inactive_lines :
                      inactive_lines[i].uid = c /\ inactive_lines[i].seen = "never"

\* C4: the ids /inactive evaluates are exactly the keys of last_seen
\* together with the non-bot users of the administrator list the lookup
\* returned (none when it raised); every reported id is one of them, and a
\* bot administrator is none of them unless it is a key of last_seen.
C4_CandidateSet ==
    QueryRan =>
        /\ candidate_ids = (DOMAIN last_seen) \cup (admins \ Bots)
        /\ ReportedIds \subseteq candidate_ids
        /\ \A u \in AllUsers :
              (u \notin DOMAIN last_seen /\ u \notin admins) => u \notin ReportedIds
        /\ \A b \in admins \cap Bots :
              b \notin DOMAIN last_seen => b \notin candidate_ids

\* C4 witness: the lookup returned a bot and an untouched human as
\* administrators while another user was recorded.
C4_Witness ==
    /\ QueryRan
    /\ admins = {12, 13}
    /\ DOMAIN last_seen = {11}
    /\ candidate_ids = {11, 12}
    /\ 12 \in ReportedIds

\* C5: when on_message handles a message of a group or supergroup sent by a
\* non-bot user, the chat becomes tracked, the sender's last_seen is the
\* current time, and every other user's entry is as before.
C5_MessageTouchesSender ==
    [][ ( /\ handled' = "on_message"
          /\ chat_type(ev'.chat) \in {"group", "supergroup"}
          /\ ev'.from \in Humans )
        => ( /\ ev'.chat \in groups'
             /\ TouchedNow(ev'.from)
             /\ OthersKept(ev'.from) ) ]_vars

\* C5 witness: a supergroup message of a human was handled; the chat is
\* tracked, the sender recorded now and another user recorded earlier.
C5_Witness ==
    /\ handled = "on_message"
    /\ chat_type(ev.chat) = "supergroup"
    /\ ev.from \in Humans
    /\ ev.chat \in groups
    /\ ev.from \in DOMAIN last_seen /\ last_seen[ev.from] = now
    /\ \E v \in DOMAIN last_seen : v # ev.from /\ last_seen[v] < now

\* C6 (as claimed): a message that on_message handles and that is
\* ineligible (chat not of a group type, sender a bot, or no sender) changes
\* neither last_seen nor the tracked-group set.
C6_IneligibleMessageNoOp ==
    [][ ( /\ handled' = "on_message"
          /\ \/ chat_type(ev'.chat) \notin {"group", "supergroup"}
             \/ ev'.from \in Bots
             \/ ev'.from = None )
        => (last_seen' = last_seen /\ groups' = groups) ]_vars

\* C6 (amended): a message from a chat that is not of a group type changes
\* neither last_seen nor the tracked-group set, whichever handler gets it; a
\* group or supergroup message that on_message handles and whose sender is a
\* bot or missing leaves last_seen unchanged and adds the chat id to the
\* tracked-group set.
C6_IneligibleMessageTracksGroup ==
    [][ /\ ( /\ ev'.kind = "message"
             /\ chat_type(ev'.chat) \notin {"group", "supergroup"} )
           => (last_seen' = last_seen /\ groups' = groups)
        /\ ( /\ handled' = "on_message"
             /\ chat_type(ev'.chat) \in {"group", "supergroup"}
             /\ (ev'.from \in Bots \/ ev'.from = None) )
           => (last_seen' = last_seen /\ groups' = groups \cup {ev'.chat}) ]_vars

\* C6 witness: on_message handled a bot's message in a group; nobody is
\* recorded and the group is tracked.
C6_Witness ==
    /\ handled = "on_message"
    /\ ev.from \in Bots
    /\ last_seen = << >>
    /\ groups = {ev.chat}

\* C7: a membership update sets last_seen of its subject to the current
\* time, and changes no other entry, when the subject is a non-bot user and
\* the new status is "member" or "administrator"; otherwise it leaves
\* last_seen unchanged.  The actor's entry is never the one written (unless
\* the actor is the subject).
C7_MembershipTouchesSubject ==
    [][ handled' = "on_chat_member" =>
          IF /\ ev'.subj \in Humans
             /\ ev'.new_status \in {"member", "administrator"}
          THEN TouchedNow(ev'.subj) /\ OthersKept(ev'.subj)
          ELSE last_seen' = last_seen ]_vars

\* C7 witness: user 11 promoted user 12 after the clock advanced; 12 is
\* recorded now and 11 is not.
C7_Witness ==
    /\ handled = "on_chat_member"
    /\ ev.from = 11 /\ ev.subj = 12
    /\ ev.new_status = "administrator"
    /\ now > StartTime
    /\ 12 \in DOMAIN last_seen /\ last_seen[12] = now
    /\ (11 \notin DOMAIN last_seen \/ last_seen[11] < now)

\* C8 (as claimed): a membership update that is a demotion (old status
\* administrator, new status lower), a leave or a ban leaves the entries of
\* last_seen, the subject's included, unchanged.
C8_DemoteLeaveBanNotActivity ==
    [][ ( /\ handled' = "on_chat_member"
          /\ \/ ( /\ ev'.old_status = "administrator"
                  /\ ev'.new_status \in {"member", "restricted", "left", "kicked"} )
             \/ ev'.new_status \in {"left", "kicked"} )
        => last_seen' = last_seen ]_vars

\* C9: a poll answer of a non-bot voter sets last_seen of the voter to the
\* current time, whatever chats are tracked, and changes no other entry; a
\* poll answer of a bot or without a user leaves last_seen unchanged; the
\* tracked-group set is unchanged in every case.
C9_PollAnswerTouchesVoter ==
    [][ handled' = "on_poll_answer" =>
          /\ groups' = groups
          /\ IF ev'.from \in Humans
             THEN TouchedNow(ev'.from) /\ OthersKept(ev'.from)
             ELSE last_seen' = last_seen ]_vars

\* C9 witness: a human's poll answer was handled while no group is
\* tracked; the voter is recorded now.
C9_Witness ==
    /\ handled = "on_poll_answer"
    /\ ev.from \in Humans
    /\ groups = {}
    /\ ev.from \in DOMAIN last_seen /\ last_seen[ev.from] = now

\* C10 (as claimed): with reaction data exposed, dispatching a reaction
\* update of a non-bot user sets last_seen of that user to the current time.
C10_ReactionTouchesUser ==
    [][ ( /\ reactions_exposed
          /\ ev'.kind = "message_reaction"
          /\ ev'.from \in Humans )
        => TouchedNow(ev'.from) ]_vars

\* C11: /inactive with a non-numeric, zero or negative day argument is
\* answered by the usage message alone, and /inactive with an accepted
\* argument outside a group or supergroup by the rejection message alone;
\* neither builds a report nor changes last_seen or the tracked-group set.
\* Without an argument the command is accepted with 30 days.
C11_UsageAndRejection ==
    [][ handled' = "cmd_inactive" =>
          /\ ev'.arg \in {"0", "-1", "abc"} =>
               /\ replies' = <<Text(<<"Usage: /inactive <days>, e.g. /inactive 30">>)>>
               /\ inactive_lines' = << >>
               /\ last_seen' = last_seen /\ groups' = groups
          /\ ( /\ ev'.arg \notin {"0", "-1", "abc"}
               /\ chat_type(ev'.chat) \notin {"group", "supergroup"} ) =>
               /\ replies' = <<Text(<<"Run this in a group/supergroup.">>)>>
               /\ inactive_lines' = << >>
               /\ last_seen' = last_seen /\ groups' = groups
          /\ ( /\ ev'.arg = ""
               /\ chat_type(ev'.chat) \in {"group", "supergroup"} ) =>
               /\ Len(replies') >= 1
               /\ replies'[1].lines[1] \in
                    { "# Inactive for > 30 days (tracked users):",
                      "+ No tracked members inactive for > 30 days." }
               /\ \A u \in DOMAIN last_seen :
                    (u \in { inactive_lines'[i].uid : i \in DOMAIN inactive_lines' })
                        <=> last_seen[u] < now - 30 * 86400 ]_vars

\* C11 witness: "/inactive -1" in a group with a user recorded was answered
\* by the usage message.
C11_Witness ==
    /\ handled = "cmd_inactive"
    /\ ev.arg = "-1"
    /\ chat_type(ev.chat) = "group"
    /\ last_seen # << >>
    /\ replies = <<UsageInactive>>

\* the handlers of the query commands
QueryCommands ==
    {"cmd_inactive", "cmd_lastseen", "cmd_stats", "cmd_export", "cmd_help",
     "cmd_start"}

\* C12 (as claimed): no invocation of /inactive, /lastseen, /stats,
\* /export, /help or /start changes the entries of last_seen or of the
\* tracked-group set.
C12_CommandsReadOnly ==
    [][ handled' \in QueryCommands =>
          (last_seen' = last_seen /\ groups' = groups) ]_vars

\* C12 (amended): no command changes last_seen; the tracked-group set is
\* unchanged by every command except that /inactive with an accepted day
\* count in a group or supergroup, when its cutoff can be computed, adds
\* the id of that chat.
C12_CommandsKeepLastSeen ==
    [][ handled' \in QueryCommands =>
          /\ last_seen' = last_seen
          /\ groups' =
               IF /\ handled' = "cmd_inactive"
                  /\ ev'.arg \in {"", "1", "20000"}
                  /\ chat_type(ev'.chat) \in {"group", "supergroup"}
               THEN groups \cup {ev'.chat}
               ELSE groups ]_vars

\* C12 witness: the query of /inactive ran in the supergroup while a user
\* is recorded and the channel is tracked; both chats are tracked.
C12_Witness ==
    /\ QueryRan
    /\ ev.chat = 30
    /\ last_seen # << >>
    /\ groups = {30, 40}

\* the record the query reads for c: 0 stands for none
SeenOrZero(c) == IF c \in DOMAIN last_seen THEN last_seen[c] ELSE 0

\* C13: when get_administrators raises, the administrator set is empty and
\* the candidates are the keys of last_seen; a reported candidate whose
\* get_member raises carries the label ID:<user_id>, every other one its
\* display name; the command still replies, and the reported ids are the
\* candidates below the cutoff whatever lookups raised.
C13_LookupFailuresDegrade ==
    QueryRan =>
        /\ admins_failed =>
             (admin_ids = {} /\ candidate_ids = DOMAIN last_seen)
        /\ Len(replies) >= 1
        /\ member_failed \subseteq ReportedIds
        /\ \A i \in DOMAIN inactive_lines :
             inactive_lines[i].label =
                IF inactive_lines[i].uid \in member_failed
                THEN "ID:" \o ToString(inactive_lines[i].uid)
                ELSE fmt_user(inactive_lines[i].uid)
        /\ ReportedIds = { c \in candidate_ids : SeenOrZero(c) < QueryCutoff }

\* C13 witness: both lookups raised; the recorded user 12 is reported
\* under the label ID:12.
C13_Witness ==
    /\ QueryRan
    /\ admins_failed
    /\ member_failed = {12}
    /\ \E i \in DOMAIN inactive_lines :
          inactive_lines[i].uid = 12 /\ inactive_lines[i].label = "ID:12"

\* C15: /export sends one document: the header row, then exactly one row
\* for each key of last_seen, whatever the record and the chat; the header
\* row is there when last_seen is empty.
C15_ExportRows ==
    handled = "cmd_export" =>
        /\ Len(replies) = 1
        /\ replies[1].kind = "document"
        /\ replies[1].lines[1] = "user_id,last_interaction_iso"
        /\ Len(replies[1].lines) = 1 + Cardinality(DOMAIN last_seen)
        /\ \A u \in DOMAIN last_seen :
             Cardinality({ i \in 2..Len(replies[1].lines) :
                 replies[1].lines[i] =
                     ToString(u) \o "," \o ToString(last_seen[u]) \o "+00:00" }) = 1

\* C15 witness: /export ran with two users recorded at different times and
\* sent three rows.
C15_Witness ==
    /\ handled = "cmd_export"
    /\ DOMAIN last_seen = {11, 12}
    /\ last_seen[11] # last_seen[12]
    /\ Len(replies[1].lines) = 3

\* C16 (as claimed): after the dispatch of a message that a non-bot user
\* sent in a group or supergroup, plain text or a registered command, the
\* sender's last_seen is the current time.
C16_EveryGroupMessageCounts ==
    [][ ( /\ ev'.kind = "message"
          /\ ~ev'.status_update
          /\ chat_type(ev'.chat) \in {"group", "supergroup"}
          /\ ev'.from \in Humans )
        => TouchedNow(ev'.from) ]_vars

\* C17: every key of last_seen is the id of a non-bot account.
C17_NoBotRecorded == (DOMAIN last_seen) \cap Bots = {}

\* C17 witness: the bot's message in a group was handled while both humans
\* are recorded.
C17_Witness ==
    /\ handled = "on_message"
    /\ ev.from \in Bots
    /\ DOMAIN last_seen = Humans

\* C18 (as claimed): every id of the tracked-group set is the id of a
\* group or supergroup, and no step removes an id from the set.
C18_OnlyGroupsTracked ==
    [][ /\ \A c \in groups' : chat_type(c) \in {"group", "supergroup"}
        /\ groups \subseteq groups' ]_vars

\* the length of the text of a message: its lines joined by newlines
RECURSIVE JoinedLen(_)
JoinedLen(lines) ==
    IF lines = << >> THEN 0
    ELSE Len(Head(lines)) + (IF Tail(lines) = << >> THEN 0
                             ELSE 1 + JoinedLen(Tail(lines)))

\* the texts of inactive_lines, in order
LineTexts ==
    [i \in 1..Len(inactive_lines) |->
        line_text(inactive_lines[i].label, inactive_lines[i].seen)]

\* C14: for a non-empty list of inactive lines, every message sent is at
\* most 3500 characters long; when the header and the lines together are
\* longer than 3500 characters more than one message is sent; and the
\* second and every later message begins with the continuation marker.
C14_ChunksWithinBudget ==
    (handled = "cmd_inactive" /\ inactive_lines # << >>) =>
        /\ \A k \in DOMAIN replies : JoinedLen(replies[k].lines) <= 3500
        /\ JoinedLen(<<header(QueryDays)>> \o LineTexts) > 3500
              => Len(replies) > 1
        /\ \A k \in 2..Len(replies) :
              /\ replies[k].lines[1] = "(cont'd)"
              /\ Len(replies[k].lines) >= 2

\* C14 witness: a report of three messages, the first of them within one
\* long line of the budget.
C14_Witness ==
    /\ handled = "cmd_inactive"
    /\ Len(replies) = 3
    /\ JoinedLen(replies[1].lines) > 3500 - 210
    /\ replies[3].lines[1] = "(cont'd)"

\* C19: while cmd_inactive is suspended on get_administrators or
\* get_member no other handler runs and no step changes last_seen; when
\* the command ends, the reported ids are the candidates that were before
\* the cutoff in last_seen as it was when the command started, each with
\* the last-seen value it had then.
C19_HandlersNeverInterleave ==
    [][ pc # "idle" =>
          /\ last_seen' = last_seen
          /\ ev' = ev
          /\ handled' = "cmd_inactive"
          /\ pc' = "idle" =>
               /\ Len(replies') >= 1
               /\ ReportedIds' =
                    { c \in (DOMAIN at_start) \cup admin_ids :
                        get_or_zero(at_start, c) < await_cutoff }
               /\ \A i \in DOMAIN inactive_lines' :
                    inactive_lines'[i].seen =
                       IF inactive_lines'[i].uid \in DOMAIN at_start
                       THEN human_dt(at_start[inactive_lines'[i].uid])
                       ELSE "never" ]_vars

\* C19 witness: the command is suspended on get_member for the
\* administrator 12, a day after it started, with a user recorded; last_seen
\* is as it was at the start.
C19_Witness ==
    /\ pc = "get_member"
    /\ Head(todo) = 12
    /\ 11 \in DOMAIN at_start
    /\ last_seen = at_start
    /\ now = await_cutoff + DefaultDays * DaySecs + TickSecs

\* the lines of the messages rs without the first line of each
RECURSIVE Unpaged(_)
Unpaged(rs) ==
    IF rs = << >> THEN << >>
    ELSE Tail(Head(rs).lines) \o Unpaged(Tail(rs))

\* C20: /inactive sends at least one message on every path, and for a
\* non-empty list of inactive lines the messages without their header or
\* continuation marker, concatenated in the order sent, are the lines, each
\* once and in their order.
C20_LosslessAndAlwaysReplies ==
    handled = "cmd_inactive" =>
        /\ Len(replies) >= 1
        /\ inactive_lines # << >> => Unpaged(replies) = LineTexts
====
